---- MODULE Spec2Model ----
(***************************************************************************)
(* A model of src/SocialNetwork.py: the SocialNetwork class, its           *)
(* constructor with the two connection generators, the networkx MultiGraph *)
(* it fills, and the analytics queries that read the graph.                *)
(*                                                                         *)
(* Person names are opaque to the code (it only hashes and compares them), *)
(* so they are modelled as the integers 1..MaxPeople.                      *)
(***************************************************************************)
EXTENDS Integers, Sequences, FiniteSets, TLC

\* ------------------------------------------------------------------ bounds

\* Longest people sequence handed to the constructor, and the number of
\* distinct person names.
MaxPeople == 3

\* Longest explicitly supplied connection list.
MaxConns == 2

\* Largest degree of separation asked of get_adjacency_with_separation_degree.
MaxSep == 2

\* The threshold of get_more_than_four (SocialNetwork.py line 224).
Threshold == 4

Persons == 1..MaxPeople

VARIABLES
    pc,           \* "new" before the constructor ran, "built" after it
    people,       \* self.people: the sequence handed to the constructor
    connections,  \* self.connections: the list of (i, j) pairs
    nodes,        \* self.graph: the nodes, in insertion order
    adj,          \* self.graph: adj[<<u, v>>] = number of parallel edges u-v
    args,         \* whether connections were given, and which generator ran
    flips,        \* log of random.randint: flips[<<i, j>>] for people positions
    result        \* what the last query returned

vars == <<pc, people, connections, nodes, adj, args, flips, result>>

\* ----------------------------------------------------------------- helpers

Range(s) == {s[k] : k \in DOMAIN s}

SeqsUpTo(S, n) == UNION {[1..k -> S] : k \in 0..n}

RECURSIVE SumOver(_, _)
SumOver(S, f) ==
    IF S = {} THEN 0
    ELSE LET x == CHOOSE y \in S : TRUE IN f[x] + SumOver(S \ {x}, f)

\* --------------------------------------------------- networkx.MultiGraph

EmptyGraph == [nodes |-> <<>>, adj |-> <<>>]

NodeSet(g) == Range(g.nodes)

\* MultiGraph.add_node: a node already present is left alone.
AddNode(g, n) ==
    IF n \in NodeSet(g) THEN g
    ELSE LET ns == NodeSet(g) \cup {n}
         IN  [nodes |-> Append(g.nodes, n),
              adj   |-> [p \in ns \X ns |->
                           IF p \in DOMAIN g.adj THEN g.adj[p] ELSE 0]]

\* A variant of add_edge that stores an edge only between nodes already
\* present.
AddEdge_KnownOnly(g, e) ==
    IF e[1] \in NodeSet(g) /\ e[2] \in NodeSet(g)
    THEN [nodes |-> g.nodes,
          adj   |-> [p \in DOMAIN g.adj |->
                       IF p = <<e[1], e[2]>> \/ p = <<e[2], e[1]>>
                       THEN g.adj[p] + 1 ELSE g.adj[p]]]
    ELSE g

\* MultiGraph.add_edge: both endpoints are added as nodes when missing, and
\* one more parallel edge is stored; a pair (u, u) is stored like any other.
AddEdge(g, e) ==
    LET g1 == AddNode(AddNode(g, e[1]), e[2])
    IN  [nodes |-> g1.nodes,
         adj   |-> [p \in DOMAIN g1.adj |->
                      IF p = <<e[1], e[2]>> \/ p = <<e[2], e[1]>>
                      THEN g1.adj[p] + 1 ELSE g1.adj[p]]]

RECURSIVE AddNodesFrom(_, _)
AddNodesFrom(g, s) ==
    IF s = <<>> THEN g ELSE AddNodesFrom(AddNode(g, Head(s)), Tail(s))

RECURSIVE AddEdgesFrom(_, _)
AddEdgesFrom(g, s) ==
    IF s = <<>> THEN g ELSE AddEdgesFrom(AddEdge(g, Head(s)), Tail(s))

\* MultiGraph.degree of one node: the parallel edges to every neighbour, a
\* self-loop counted twice.
Degree(g, n) ==
    SumOver(NodeSet(g), [w \in NodeSet(g) |-> g.adj[<<n, w>>]]) + g.adj[<<n, n>>]

\* Iterating self.graph.degree: (node, degree) pairs in node insertion order.
DegreeView(g) == [k \in DOMAIN g.nodes |-> <<g.nodes[k], Degree(g, g.nodes[k])>>]

Neighbors(g, v) == {w \in NodeSet(g) : g.adj[<<v, w>>] > 0}

\* networkx single_source_shortest_path_length: breadth-first search by
\* levels; dist maps the nodes seen so far to their level.
RECURSIVE BFS(_, _, _, _)
BFS(g, dist, thislevel, level) ==
    LET nextlevel == {w \in NodeSet(g) \ (DOMAIN dist) :
                        \E v \in thislevel : w \in Neighbors(g, v)}
    IN  IF nextlevel = {} THEN dist
        ELSE BFS(g, [w \in (DOMAIN dist) \cup nextlevel |->
                       IF w \in DOMAIN dist THEN dist[w] ELSE level + 1],
                 nextlevel, level + 1)

ShortestPathLength(g, source) == BFS(g, [w \in {source} |-> 0], {source}, 0)

\* networkx.all_pairs_shortest_path_length: one entry per node of the graph.
AllPairsShortestPathLength(g) ==
    [k \in DOMAIN g.nodes |-> <<g.nodes[k], ShortestPathLength(g, g.nodes[k])>>]

\* ------------------------------------------------- connection generators

\* What flips[p] holds when random.randint was not called for the pair p.
NotDrawn == -1

PosPairs(ppl) == (DOMAIN ppl) \X (DOMAIN ppl)

\* `i is j` for the elements at positions i and j of self.people: the same
\* object.  ident[k] is the first position holding the object at position k;
\* equal names may or may not be one object, different names never are.
Is(ident, i, j) == ident[i] = ident[j]

\* A variant of the inner loop that pairs i only with later people.
RECURSIVE FullInner_Upper(_, _, _, _, _)
FullInner_Upper(ppl, ident, i, j, conns) ==
    IF j > Len(ppl) THEN conns
    ELSE IF j =< i THEN FullInner_Upper(ppl, ident, i, j + 1, conns)
    ELSE FullInner_Upper(ppl, ident, i, j + 1, Append(conns, <<ppl[i], ppl[j]>>))

\* create_connections_full, lines 57-62: the inner loop over j, from j on.
RECURSIVE FullInner(_, _, _, _, _)
FullInner(ppl, ident, i, j, conns) ==
    IF j > Len(ppl) THEN conns
    ELSE IF Is(ident, i, j) THEN FullInner(ppl, ident, i, j + 1, conns)
    ELSE FullInner(ppl, ident, i, j + 1, Append(conns, <<ppl[i], ppl[j]>>))

RECURSIVE FullOuter(_, _, _, _)
FullOuter(ppl, ident, i, conns) ==
    IF i > Len(ppl) THEN conns
    ELSE FullOuter(ppl, ident, i + 1, FullInner(ppl, ident, i, 1, conns))

\* create_connections_full: appends to self.connections, which is [].
create_connections_full(ppl, ident) == FullOuter(ppl, ident, 1, <<>>)

\* A variant of the inner loop without the break after a successful flip.
RECURSIVE RandomInner_NoBreak(_, _, _, _, _, _)
RandomInner_NoBreak(ppl, ident, coin, i, j, st) ==
    IF j > Len(ppl) THEN st
    ELSE IF Is(ident, i, j) THEN RandomInner_NoBreak(ppl, ident, coin, i, j + 1, st)
    ELSE LET m   == coin[<<i, j>>]
             st1 == [st EXCEPT !.log[<<i, j>>] = m]
         IN  IF m = 0 THEN RandomInner_NoBreak(ppl, ident, coin, i, j + 1, st1)
             ELSE RandomInner_NoBreak(ppl, ident, coin, i, j + 1,
                      [st1 EXCEPT !.conns = Append(@, <<ppl[i], ppl[j]>>)])

\* create_connections_random, lines 69-81: the inner loop over j, from j on.
\* st.conns is self.connections, st.log the values randint returned; coin is
\* what randint would return for each pair of positions.
RECURSIVE RandomInner(_, _, _, _, _, _)
RandomInner(ppl, ident, coin, i, j, st) ==
    IF j > Len(ppl) THEN st
    ELSE IF Is(ident, i, j) THEN RandomInner(ppl, ident, coin, i, j + 1, st)
    ELSE LET m   == coin[<<i, j>>]
             st1 == [st EXCEPT !.log[<<i, j>>] = m]
         IN  IF m = 0 THEN RandomInner(ppl, ident, coin, i, j + 1, st1)
             ELSE [st1 EXCEPT !.conns = Append(@, <<ppl[i], ppl[j]>>)]

RECURSIVE RandomOuter(_, _, _, _, _)
RandomOuter(ppl, ident, coin, i, st) ==
    IF i > Len(ppl) THEN st
    ELSE RandomOuter(ppl, ident, coin, i + 1,
                     RandomInner(ppl, ident, coin, i, 1, st))

NoFlips(ppl) == [p \in PosPairs(ppl) |-> NotDrawn]

create_connections_random(ppl, ident, coin) ==
    RandomOuter(ppl, ident, coin, 1, [conns |-> <<>>, log |-> NoFlips(ppl)])

\* ------------------------------------------------------------ construction

\* populate_graph, lines 88-90.
populate_graph(ppl, conns) == AddEdgesFrom(AddNodesFrom(EmptyGraph, ppl), conns)

\* __init__, lines 32-48.  carg is the connections argument: [none |-> TRUE]
\* for None, [none |-> FALSE, list |-> ...] for a list.  ran logs which
\* generator was called.
Generated(ppl, ident, carg, gov, coin) ==
    IF carg.none
    THEN CASE gov \in {"None", "random"} ->
                LET st == create_connections_random(ppl, ident, coin)
                IN  [conns |-> st.conns, log |-> st.log, ran |-> "random"]
           [] gov = "full" ->
                [conns |-> create_connections_full(ppl, ident),
                 log |-> NoFlips(ppl), ran |-> "full"]
           [] OTHER ->
                [conns |-> <<>>, log |-> NoFlips(ppl), ran |-> "-"]
    ELSE [conns |-> carg.list, log |-> NoFlips(ppl), ran |-> "-"]

NoResult == [op |-> "-", arg |-> "-", kind |-> "-", val |-> "-"]

SocialNetwork(ppl, ident, carg, gov, coin) ==
    /\ pc = "new"
    /\ \E gen \in {Generated(ppl, ident, carg, gov, coin)} :
       \E g \in {populate_graph(ppl, gen.conns)} :
           /\ people' = ppl
           /\ connections' = gen.conns
           /\ flips' = gen.log
           /\ args' = [given |-> ~carg.none, ran |-> gen.ran]
           /\ nodes' = g.nodes
           /\ adj' = g.adj
    /\ pc' = "built"
    /\ result' = NoResult

\* The graph held by the object.
graph == [nodes |-> nodes, adj |-> adj]

\* ----------------------------------------------------------------- queries

\* A variant of the loop that keeps the nodes at most degree hops away.
RECURSIVE AdjacencyLoop_AtMost(_, _, _, _)
AdjacencyLoop_AtMost(apsp, k, degree, adjacency) ==
    IF k > Len(apsp) THEN adjacency
    ELSE LET i    == apsp[k]
             dic  == i[2]
             temp == {j \in DOMAIN dic : dic[j] =< degree}
         IN  AdjacencyLoop_AtMost(apsp, k + 1, degree,
                 [x \in (DOMAIN adjacency) \cup {i[1]} |->
                     IF x = i[1] THEN temp ELSE adjacency[x]])

\* get_adjacency_with_separation_degree, lines 120-133: the loop over
\* all_pairs_shortest_path_length, from entry k on; adjacency is the dict.
RECURSIVE AdjacencyLoop(_, _, _, _)
AdjacencyLoop(apsp, k, degree, adjacency) ==
    IF k > Len(apsp) THEN adjacency
    ELSE LET i    == apsp[k]
             dic  == i[2]
             temp == {j \in DOMAIN dic : dic[j] = degree}
         IN  AdjacencyLoop(apsp, k + 1, degree,
                 [x \in (DOMAIN adjacency) \cup {i[1]} |->
                     IF x = i[1] THEN temp ELSE adjacency[x]])

Adjacency(g, degree) ==
    [kind |-> "dict",
     val  |-> AdjacencyLoop(AllPairsShortestPathLength(g), 1, degree, <<>>)]

\* get_most_popular, lines 155-163: the first loop, from entry k on.  person
\* is <<>> for None, else a (node, degree) pair.
RECURSIVE MostLoop(_, _, _)
MostLoop(view, k, person) ==
    IF k > Len(view) THEN person
    ELSE IF person = <<>> THEN MostLoop(view, k + 1, view[k])
    ELSE IF view[k][2] > person[2] THEN MostLoop(view, k + 1, view[k])
    ELSE MostLoop(view, k + 1, person)

\* A variant without the second loop: nobody is added for a tie.
EquallyPopular_None(view, person) == {}

\* Lines 167-171 and 190-192: everyone whose degree equals person's.
EquallyPopular(view, person) ==
    {view[k][1] : k \in {x \in DOMAIN view : view[x][2] = person[2]}}

\* get_most_popular: person[0] on None raises TypeError.
MostPopular(g) ==
    LET person == MostLoop(DegreeView(g), 1, <<>>)
    IN  IF person = <<>> THEN [kind |-> "error", val |-> "TypeError"]
        ELSE [kind |-> "set",
              val  |-> {person[1]} \cup EquallyPopular(DegreeView(g), person)]

\* get_least_popular, lines 183-188.
RECURSIVE LeastLoop(_, _, _)
LeastLoop(view, k, person) ==
    IF k > Len(view) THEN person
    ELSE IF person = <<>> THEN LeastLoop(view, k + 1, view[k])
    ELSE IF view[k][2] < person[2] THEN LeastLoop(view, k + 1, view[k])
    ELSE LeastLoop(view, k + 1, person)

LeastPopular(g) ==
    LET person == LeastLoop(DegreeView(g), 1, <<>>)
    IN  IF person = <<>> THEN [kind |-> "error", val |-> "TypeError"]
        ELSE [kind |-> "set",
              val  |-> {person[1]} \cup EquallyPopular(DegreeView(g), person)]

\* get_average, lines 201-207: st = <<summation, count>>.
RECURSIVE AverageLoop(_, _, _)
AverageLoop(view, k, st) ==
    IF k > Len(view) THEN st
    ELSE AverageLoop(view, k + 1, <<st[1] + view[k][2], st[2] + 1>>)

\* summation/count: float division of two small non-negative integers.  The
\* double nearest to the quotient has the floor, ceiling and truncation of
\* the quotient itself for sums and counts this far below 2^53, so the
\* quotient is kept exact, as numerator and denominator.
TrueDiv(a, b) == [num |-> a, den |-> b]

\* A variant of the ceiling: one more than the floor, whatever the quotient.
MathCeil_FloorPlusOne(q) == (q.num \div q.den) + 1

\* math.floor, math.ceil and int() of a quotient with a positive denominator.
MathFloor(q) == q.num \div q.den
MathCeil(q) == -((-q.num) \div q.den)
IntCast(q) == IF q.num >= 0 THEN q.num \div q.den ELSE -((-q.num) \div q.den)

\* get_average, lines 209-216.
Average(g, gov) ==
    LET st == AverageLoop(DegreeView(g), 1, <<0, 0>>)
    IN  IF st[2] = 0 THEN [kind |-> "error", val |-> "ZeroDivisionError"]
        ELSE CASE gov = "floor"   -> [kind |-> "int", val |-> MathFloor(TrueDiv(st[1], st[2]))]
               [] gov = "ceiling" -> [kind |-> "int", val |-> MathCeil(TrueDiv(st[1], st[2]))]
               [] gov = "cast"    -> [kind |-> "int", val |-> IntCast(TrueDiv(st[1], st[2]))]
               [] OTHER           -> [kind |-> "float", val |-> TrueDiv(st[1], st[2])]

\* get_more_than_four, lines 221-228.
MoreThanFour(g) ==
    LET view     == DegreeView(g)
        populars == {view[k][1] : k \in {x \in DOMAIN view : view[x][2] > Threshold}}
    IN  IF Cardinality(populars) = 0
        THEN [kind |-> "str", val |-> "No one has more than four friends"]
        ELSE [kind |-> "set", val |-> populars]

\* A variant of a query that empties the stored connections as it reads them.
Returns_Consuming(op, arg, r) ==
    /\ pc = "built"
    /\ \E res \in {r} :
          result' = [op |-> op, arg |-> arg, kind |-> res.kind, val |-> res.val]
    /\ connections' = <<>>
    /\ UNCHANGED <<pc, people, nodes, adj, args, flips>>

\* A query returns r and leaves the object alone.
Returns(op, arg, r) ==
    /\ pc = "built"
    /\ \E res \in {r} :
          result' = [op |-> op, arg |-> arg, kind |-> res.kind, val |-> res.val]
    /\ UNCHANGED <<pc, people, connections, nodes, adj, args, flips>>

get_adjacency_with_separation_degree(degree) ==
    Returns("adjacency", degree, Adjacency(graph, degree))

\* A variant of get_friends that reads each node's graph neighbours.
get_friends_ByNeighbors ==
    Returns("friends", "-",
            [kind |-> "dict", val |-> [p \in NodeSet(graph) |-> Neighbors(graph, p)]])

get_friends == Returns("friends", "-", Adjacency(graph, 1))

get_friends_of_friends == Returns("friends_of_friends", "-", Adjacency(graph, 2))

get_most_popular == Returns("most_popular", "-", MostPopular(graph))

get_least_popular == Returns("least_popular", "-", LeastPopular(graph))

get_average(gov) == Returns("average", gov, Average(graph, gov))

get_more_than_four == Returns("more_than_four", "-", MoreThanFour(graph))

\* ------------------------------------------------------------------ inputs

Max(S) == CHOOSE x \in S : \A y \in S : y =< x

\* People sequences up to renaming: a name not seen before is the next
\* unused integer.
PeopleInputs ==
    {s \in SeqsUpTo(Persons, MaxPeople) :
        \A k \in DOMAIN s : s[k] <= 1 + Max({0} \cup {s[j] : j \in 1..(k - 1)})}

\* The object identities a people sequence can have.
Idents(ppl) ==
    {id \in [DOMAIN ppl -> DOMAIN ppl] :
        \A k \in DOMAIN ppl :
            /\ id[k] <= k
            /\ id[id[k]] = id[k]
            /\ ppl[id[k]] = ppl[k]}

\* Every name at its own position's object.
OwnIdent(ppl) == [k \in DOMAIN ppl |-> k]

\* What random.randint(0, 1) returns for each pair of different positions.
Coins(ppl) == [{p \in PosPairs(ppl) : p[1] # p[2]} -> {0, 1}]

ConnInputs == SeqsUpTo(Persons \X Persons, MaxConns)

Govs == {"None", "random", "full", "other"}

Init ==
    /\ pc = "new"
    /\ people = <<>>
    /\ connections = <<>>
    /\ nodes = <<>>
    /\ adj = <<>>
    /\ args = [given |-> FALSE, ran |-> "-"]
    /\ flips = <<>>
    /\ result = NoResult

\* The constructor called with a connection list; the random source is not
\* consulted.
ConstructGiven ==
    /\ pc = "new"
    /\ \E ppl \in PeopleInputs, conns \in ConnInputs, gov \in Govs :
          SocialNetwork(ppl, OwnIdent(ppl), [none |-> FALSE, list |-> conns],
                        gov, [p \in PosPairs(ppl) |-> 0])

\* The constructor called without connections: a generator chosen by gov
\* makes them, the random one from the coin flips it draws.
ConstructGenerated ==
    /\ pc = "new"
    /\ \E ppl \in PeopleInputs, gov \in Govs : \E ident \in Idents(ppl) :
          IF gov \in {"None", "random"}
          THEN \E coin \in Coins(ppl) :
                  SocialNetwork(ppl, ident, [none |-> TRUE], gov, coin)
          ELSE SocialNetwork(ppl, ident, [none |-> TRUE], gov,
                             [p \in PosPairs(ppl) |-> 0])

AvgGovs == {"floor", "ceiling", "cast", "None"}

Next ==
    \/ ConstructGiven
    \/ ConstructGenerated
    \/ \E degree \in 0..MaxSep : get_adjacency_with_separation_degree(degree)
    \/ get_friends
    \/ get_friends_of_friends
    \/ get_most_popular
    \/ get_least_popular
    \/ \E gov \in AvgGovs : get_average(gov)
    \/ get_more_than_four

Spec == Init /\ [][Next]_vars

\* Construction from a given connection list alone, no query.
SpecGiven == Init /\ [][ConstructGiven]_vars

\* Construction with a generator alone, no query.
SpecGen == Init /\ [][ConstructGenerated]_vars

\* ------------------------------------------------------------------ claims

Built == pc = "built"

Nodes == NodeSet(graph)

Distinct(s) == \A i, j \in DOMAIN s : i # j => s[i] # s[j]

\* The endpoints named by a connection list.
Endpoints(conns) == UNION {{conns[k][1], conns[k][2]} : k \in DOMAIN conns}

\* The number of edge endpoints at n, counted on the stored connections.
EndpointCount(n) ==
    Cardinality({k \in DOMAIN connections : connections[k][1] = n})
    + Cardinality({k \in DOMAIN connections : connections[k][2] = n})

\* The nodes a walk of exactly k edges from p can end at.
RECURSIVE WalkEnds(_, _)
WalkEnds(p, k) ==
    IF k = 0 THEN {p}
    ELSE {w \in Nodes : \E v \in WalkEnds(p, k - 1) : adj[<<v, w>>] > 0}

\* q is at shortest-path hop count d from p.
HopCountIs(p, q, d) ==
    /\ q \in WalkEnds(p, d)
    /\ \A k \in 0..(d - 1) : q \notin WalkEnds(p, k)

Reachable(p, q) == \E k \in 0..Cardinality(Nodes) : q \in WalkEnds(p, k)

\* C1: after construction from explicitly supplied connections (between
\* declared people) the graph holds no self-loop edge (p, p).
C1_NoSelfLoop ==
    (Built /\ args.given /\ Endpoints(connections) \subseteq Range(people))
        => \A p \in Nodes : adj[<<p, p>>] = 0

\* C2: get_more_than_four returns a set, exactly the nodes whose degree is
\* strictly greater than 4, and the empty set when there is none.
C2_MoreThanFourIsSet ==
    result.op = "more_than_four" =>
        /\ result.kind = "set"
        /\ result.val = {n \in Nodes : EndpointCount(n) > Threshold}

\* C3: get_adjacency_with_separation_degree(d) returns a mapping whose keys
\* are exactly the graph's nodes and whose value at p is exactly the set of
\* nodes at shortest-path hop count d from p; unreachable nodes never appear,
\* and d = 0 maps every p to {p}.
C3_AdjacencyAtDistance ==
    result.op = "adjacency" =>
        /\ result.kind = "dict"
        /\ DOMAIN result.val = Nodes
        /\ \A p \in Nodes :
              /\ result.val[p] = {q \in Nodes : HopCountIs(p, q, result.arg)}
              /\ \A q \in Nodes : ~Reachable(p, q) => q \notin result.val[p]
              /\ result.arg = 0 => result.val[p] = {p}

C3_Witness ==
    /\ result.op = "adjacency"
    /\ result.arg = 2
    /\ \E p, q \in Nodes : result.val[p] # {} /\ result.val[q] = {}

\* C4: on a non-empty graph get_most_popular returns exactly the nodes of
\* maximum degree and get_least_popular exactly those of minimum degree, both
\* non-empty, every most popular node having degree at least that of every
\* least popular one; on a graph with no node both fail.
C4_Extremes ==
    /\ result.op = "most_popular" =>
          IF Nodes = {} THEN result.kind = "error"
          ELSE /\ result.kind = "set"
               /\ result.val # {}
               /\ result.val = {n \in Nodes : \A m \in Nodes :
                                    EndpointCount(n) >= EndpointCount(m)}
               /\ \A a \in result.val : \A b \in LeastPopular(graph).val :
                      EndpointCount(a) >= EndpointCount(b)
    /\ result.op = "least_popular" =>
          IF Nodes = {} THEN result.kind = "error"
          ELSE /\ result.kind = "set"
               /\ result.val # {}
               /\ result.val = {n \in Nodes : \A m \in Nodes :
                                    EndpointCount(n) =< EndpointCount(m)}
               /\ \A a \in MostPopular(graph).val : \A b \in result.val :
                      EndpointCount(a) >= EndpointCount(b)

C4_Witness ==
    /\ result.op = "most_popular"
    /\ result.kind = "set"
    /\ Cardinality(result.val) >= 2
    /\ result.val # Nodes

\* C5 (as stated): after construction no graph node and no edge endpoint lies
\* outside the supplied people sequence.
C5_OnlyDeclaredPeople ==
    Built => /\ Nodes \subseteq Range(people)
             /\ Endpoints(connections) \subseteq Range(people)

\* C5 (amended): after construction every edge endpoint is a graph node, and
\* the nodes are exactly the supplied people together with the endpoints of
\* the connections.
C5_EndpointsAreNodes ==
    Built => /\ Endpoints(connections) \subseteq Nodes
             /\ \A u, v \in Persons :
                   (\E k \in DOMAIN connections :
                        connections[k] \in {<<u, v>>, <<v, u>>})
                   => <<u, v>> \in DOMAIN adj /\ adj[<<u, v>>] > 0
             /\ Nodes = Range(people) \cup Endpoints(connections)

C5_Witness ==
    /\ Built
    /\ args.given
    /\ \E k \in DOMAIN connections : connections[k][2] \notin Range(people)

\* C6: for N distinct people create_connections_full yields exactly the
\* N*(N-1) ordered pairs (i, j) with i # j, each once, never a pair (i, i);
\* for N = 1 the list is empty.
C6_FullPairs ==
    (Built /\ args.ran = "full" /\ Distinct(people)) =>
        LET N == Len(people)
        IN  /\ Len(connections) = N * (N - 1)
            /\ \A i, j \in 1..N : i # j =>
                  Cardinality({k \in DOMAIN connections :
                      connections[k] = <<people[i], people[j]>>}) = 1
            /\ \A k \in DOMAIN connections : connections[k][1] # connections[k][2]
            /\ N = 1 => connections = <<>>

C6_Witness ==
    Built /\ args.ran = "full" /\ Distinct(people) /\ Len(people) = MaxPeople

\* The positions j whose flip for person i came up 1.
Succeeded(i) == {j \in DOMAIN people : flips[<<i, j>>] = 1}

\* The connections person i initiated.
InitiatedBy(i) == {k \in DOMAIN connections : connections[k][1] = people[i]}

\* C7: for N distinct people and any coin flips create_connections_random
\* emits at most one connection per initiating person, never a pair (i, i);
\* the connection of person i goes to the first candidate in sequence order
\* whose flip succeeded, no flip is drawn for i after it, and a person with
\* no successful flip initiates none.
C7_RandomFirstSuccess ==
    (Built /\ args.ran = "random" /\ Distinct(people)) =>
        /\ Len(connections) =< Len(people)
        /\ \A k \in DOMAIN connections : connections[k][1] # connections[k][2]
        /\ \A i \in DOMAIN people :
              /\ Cardinality(InitiatedBy(i)) =< 1
              /\ flips[<<i, i>>] = NotDrawn
              /\ IF Succeeded(i) = {}
                 THEN /\ InitiatedBy(i) = {}
                      /\ \A j \in DOMAIN people \ {i} : flips[<<i, j>>] = 0
                 ELSE LET first == CHOOSE j \in Succeeded(i) :
                                      \A x \in Succeeded(i) : j =< x
                      IN  /\ \E k \in InitiatedBy(i) :
                                connections[k] = <<people[i], people[first]>>
                          /\ \A j \in DOMAIN people \ {i} :
                                /\ j < first => flips[<<i, j>>] = 0
                                /\ j > first => flips[<<i, j>>] = NotDrawn

C7_Witness ==
    /\ Built
    /\ args.ran = "random"
    /\ Distinct(people)
    /\ Len(people) = MaxPeople
    /\ \E i, j \in DOMAIN people :
          flips[<<i, j>>] = 1 /\ \E x \in 1..(j - 1) : flips[<<i, x>>] = 0
    /\ \E i, j \in DOMAIN people :
          /\ flips[<<i, j>>] = 1
          /\ \E y \in DOMAIN people \ {i} : y > j /\ flips[<<i, y>>] = NotDrawn
    /\ \E i \in DOMAIN people : Succeeded(i) = {}

\* C8: the queries are read-only: once the network is built, no step changes
\* the stored people and connections or the graph's nodes and edges, and a
\* query asked again returns what it returned before.
C8_QueriesReadOnly ==
    [][Built =>
         /\ people' = people
         /\ connections' = connections
         /\ nodes' = nodes
         /\ adj' = adj
         /\ (result'.op = result.op /\ result'.arg = result.arg)
               => result'.val = result.val]_vars

C8_Witness ==
    /\ result.op = "friends_of_friends"
    /\ \E p \in Nodes : result.val[p] # {}
    /\ nodes = populate_graph(people, connections).nodes
    /\ adj = populate_graph(people, connections).adj

\* C9: get_friends has exactly the graph's nodes as keys and no node is in
\* its own friends set, parallel edges and pairs (p, p) included.
C9_Friends ==
    result.op = "friends" =>
        /\ result.kind = "dict"
        /\ DOMAIN result.val = Nodes
        /\ \A p \in Nodes : p \notin result.val[p]

C9_Witness ==
    /\ result.op = "friends"
    /\ \E p \in Nodes : adj[<<p, p>>] > 0 /\ result.val[p] # {}

\* What get_average must return under gov on a graph of N > 0 nodes whose
\* degrees sum to S.
AverageIs(gov, r, S, N) ==
    CASE gov = "floor" ->
            r.kind = "int" /\ r.val * N =< S /\ (r.val + 1) * N > S
      [] gov = "ceiling" ->
            r.kind = "int" /\ r.val * N >= S /\ (r.val - 1) * N < S
      [] gov = "cast" ->
            r.kind = "int" /\ r.val * N =< S /\ (r.val + 1) * N > S
      [] OTHER ->
            r.kind = "float" /\ r.val.den > 0 /\ r.val.num * N = S * r.val.den

\* C10: on a non-empty graph of N nodes whose degrees sum to S,
\* average(FLOOR) <= average(NONE) <= average(CEILING), average(NONE) * N = S,
\* FLOOR is the largest integer k with k*N <= S, CEILING the smallest with
\* k*N >= S, and the 'cast' mode equals FLOOR.
C10_AverageRounding ==
    (Built /\ Nodes # {}) =>
        LET S    == SumOver(Nodes, [n \in Nodes |-> EndpointCount(n)])
            N    == Cardinality(Nodes)
            fl   == Average(graph, "floor")
            ce   == Average(graph, "ceiling")
            ca   == Average(graph, "cast")
            none == Average(graph, "None")
        IN  /\ AverageIs("floor", fl, S, N)
            /\ AverageIs("ceiling", ce, S, N)
            /\ AverageIs("cast", ca, S, N)
            /\ AverageIs("None", none, S, N)
            /\ ca.val = fl.val
            /\ fl.val * none.val.den =< none.val.num
            /\ none.val.num =< ce.val * none.val.den
            /\ result.op = "average" => AverageIs(result.arg, result, S, N)

C10_Witness ==
    /\ result.op = "average"
    /\ result.arg = "ceiling"
    /\ result.kind = "int"
    /\ Average(graph, "floor").val < result.val

====
